---- MODULE Spec2Model ----
(***************************************************************************)
(* Western Blot Figure Tool: the session state of MainWindow/CanvasView    *)
(* (src/src/mainb.py, the final iteration) and, as a second program of the *)
(* repository, the first iteration's MainWindow (src/src/main.py).         *)
(*                                                                         *)
(* The second iteration (src/src/maina.py) has the handlers of mainb.py     *)
(* without the left margin and the startup message; it is not modelled     *)
(* separately.                                                             *)
(*                                                                         *)
(* A behaviour runs ONE of the programs (variable program).  Each action   *)
(* is one Qt event handler or menu slot, run to completion on the single   *)
(* UI thread.  Handlers are taken in any order: the toolkit delivers       *)
(* whatever events the user produces.                                      *)
(*                                                                         *)
(* Floats (scene y of a marker, QRectF) are fixed-point with one binary    *)
(* fractional digit: a value v is stored as 2*v ("half units").  This is   *)
(* exact for the view scales used here (1 and 2).  Integer QRect values    *)
(* are plain integers, stored as Qt stores them: (x1, y1, x2, y2) with     *)
(* width = x2 - x1 + 1.                                                    *)
(***************************************************************************)
EXTENDS Integers, Sequences, FiniteSets, TLC

VARIABLES
    program,          \* "mainb" | "main": which iteration this run executes
    current_pixmap,   \* MainWindow.current_pixmap: None or an image
    pixmap_item,      \* MainWindow.pixmap_item: None or "item" (placed at (left_margin, 0))
    scene,            \* items of MainWindow.scene
    kda_markers,      \* MainWindow.kda_markers: sequence of [y, kda, id]
    mode,             \* CanvasView.mode: None | "crop" | "mark"
    crop_callback,    \* CanvasView.crop_callback is set
    mark_callback,    \* CanvasView.mark_callback is set
    rubberBand,       \* CanvasView.rubberBand: None | "hidden" | "visible"
    origin,           \* CanvasView.origin (view pixels)
    view_scale,       \* view transform set by fitInView: view pixels per scene unit
    crop_window,      \* MainWindow._crop_window: the preview's pixmap and items, once shown
    crop_calls,       \* calls of crop_region since the rubber band was last shown
    nextId,           \* number of markers created so far: the next marker's identity
    error             \* a handler raised an exception

vars == <<program, current_pixmap, pixmap_item, scene, kda_markers, mode,
          crop_callback, mark_callback, rubberBand, origin, view_scale,
          crop_window, crop_calls, nextId, error>>

None == "None"

-----------------------------------------------------------------------------
(* Bounds and inputs *)

MaxAdds == 2          \* markers created in one run

Images == {"gelA", "gelB"}    \* decodable image files the user can open
ImgW(i) == IF i = "gelA" THEN 100 ELSE 40
ImgH(i) == IF i = "gelA" THEN 100 ELSE 50
\* fitInView: a small image is zoomed in
FitScale(i) == IF i = "gelA" THEN 1 ELSE 2

\* view positions of pointer events: in the left margin, and two
\* horizontally adjacent pixels over the image
Points == {<<20, 10>>, <<130, 50>>, <<129, 90>>}
KdaVals == {10, 1000}           \* values entered in the kDa dialog
Buttons == {"left", "right"}

left_margin == 60

-----------------------------------------------------------------------------
(* Qt geometry *)

QRectOf(a, b, c, d) == [x1 |-> a, y1 |-> b, x2 |-> c, y2 |-> d]
NullRect == QRectOf(0, 0, -1, -1)
RectWidth(r) == r.x2 - r.x1 + 1
RectHeight(r) == r.y2 - r.y1 + 1
RectTop(r) == r.y1
RectBottom(r) == r.y2
RectIsEmpty(r) == r.x1 > r.x2 \/ r.y1 > r.y2

Max2(a, b) == IF a >= b THEN a ELSE b
Min2(a, b) == IF a <= b THEN a ELSE b

\* QRect(origin, pos).normalized(): a rectangle of negative width or height has
\* its corners swapped, turning the exclusive corner into an inclusive one; a
\* rectangle of width 0 (x2 = x1 - 1) is left as it is.
normalized(r) ==
    LET sx == r.x2 < r.x1 - 1
        sy == r.y2 < r.y1 - 1
    IN  QRectOf(IF sx THEN r.x2 + 1 ELSE r.x1, IF sy THEN r.y2 + 1 ELSE r.y1,
                IF sx THEN r.x1 - 1 ELSE r.x2, IF sy THEN r.y1 - 1 ELSE r.y2)

\* mapToScene(point).y(): the scene y (half units) of a view y
mapToSceneY(vy, scale) == (2 * vy) \div scale

\* qRound of a non-negative value given in quarter units
qRound4(q) == (q + 2) \div 4

\* mapToScene(rect).boundingRect().toRect(): an invalid (empty) view rectangle
\* maps to the empty polygon, whose bounding rectangle is null; a valid one
\* covers the pixels x1..x2, i.e. [x1, x2 + 1) as a real interval, and the
\* QRectF is rounded by QRectF::toRect (position rounded, size corrected by
\* half the shift of the position).
mapToSceneRect(r, scale) ==
    IF RectIsEmpty(r) THEN NullRect ELSE
    LET xp == (2 * r.x1) \div scale              \* half units
        yp == (2 * r.y1) \div scale
        w  == (2 * RectWidth(r)) \div scale
        h  == (2 * RectHeight(r)) \div scale
        nxp == qRound4(2 * xp)
        nyp == qRound4(2 * yp)
        nw == qRound4(2 * w + (xp - 2 * nxp))
        nh == qRound4(2 * h + (yp - 2 * nyp))
    IN  QRectOf(nxp, nyp, nxp + nw - 1, nyp + nh - 1)

translated(r, dx, dy) == QRectOf(r.x1 + dx, r.y1 + dy, r.x2 + dx, r.y2 + dy)

intersected(a, b) ==
    LET l == Max2(a.x1, b.x1)
        t == Max2(a.y1, b.y1)
        rr == Min2(a.x2, b.x2)
        bb == Min2(a.y2, b.y2)
    IN  IF RectIsEmpty(a) \/ RectIsEmpty(b) \/ l > rr \/ t > bb
        THEN NullRect
        ELSE QRectOf(l, t, rr, bb)

ImageRect(img) == QRectOf(0, 0, ImgW(img) - 1, ImgH(img) - 1)

NullPixmap == [img |-> None, rect |-> NullRect]
WholePixmap(img) == [img |-> img, rect |-> ImageRect(img)]

\* an empty rectangle copied as an empty pixmap
PixmapCopies_EmptyIsNull(img, rect) ==
    LET c == intersected(ImageRect(img), rect)
    IN  IF RectIsEmpty(c) THEN {NullPixmap} ELSE {[img |-> img, rect |-> c]}

\* QPixmap.copy(rect): an empty rectangle copies the whole image; otherwise
\* the rectangle is clipped to the image.  For a rectangle that misses the
\* image the toolkit documents no result: the outcomes are the null pixmap
\* and the whole image.
PixmapCopies(img, rect) ==
    IF RectIsEmpty(rect) THEN {WholePixmap(img)}
    ELSE LET c == intersected(ImageRect(img), rect)
         IN  IF RectIsEmpty(c) THEN {NullPixmap, WholePixmap(img)}
             ELSE {[img |-> img, rect |-> c]}

-----------------------------------------------------------------------------
(* Marker list *)

\* an unstable sort: the element sorted in goes before the ones of equal y
RECURSIVE InsertSorted_BeforeEqual(_, _)
InsertSorted_BeforeEqual(s, m) ==
    IF s = <<>> THEN <<m>>
    ELSE IF s[Len(s)].y < m.y THEN Append(s, m)
         ELSE Append(InsertSorted_BeforeEqual(SubSeq(s, 1, Len(s) - 1), m), s[Len(s)])

\* list.sort(key=lambda d: d["y"]): stable, ascending by y
RECURSIVE InsertSorted(_, _)
InsertSorted(s, m) ==
    IF s = <<>> THEN <<m>>
    ELSE IF s[Len(s)].y <= m.y THEN Append(s, m)
         ELSE Append(InsertSorted(SubSeq(s, 1, Len(s) - 1), m), s[Len(s)])

\* the sort left out
SortByY_NoSort(s) == s

RECURSIVE SortByY(_)
SortByY(s) ==
    IF s = <<>> THEN <<>>
    ELSE InsertSorted(SortByY(SubSeq(s, 1, Len(s) - 1)), s[Len(s)])

-----------------------------------------------------------------------------
(* Scene items *)

PixmapItem(img) == <<"pixmap", img>>
LineItem(id) == <<"line", id>>
TextItem(id) == <<"text", id>>
\* the startup message and its background panel
StartupItems == {<<"bg", 0>>, <<"msg", 0>>}

NoRect == NullRect

\* no preview window yet
NoWindow ==
    [shown |-> FALSE, pixmap |-> NullPixmap, items |-> <<>>, drawn |-> <<>>, src |-> NoRect]

\* Item geometry: x in pixels, y in half pixels like the markers' y, so that
\* the half of an odd label height is exact.
\* label.boundingRect() of f"{val:g}" in the 10 pt font, <<width, height>>:
\* two characters for 10, four for 1000
LabelSize(val) == IF val < 100 THEN <<15, 12>> ELSE <<30, 12>>

\* add_kda_marker: QGraphicsLineItem(x0, scene_y, x1, scene_y) with
\* x1 = left_margin - 2.0 and x0 = x1 - 20.0
MarkerLine(scene_y) ==
    LET x1 == left_margin - 2
        x0 == x1 - 20
    IN  <<x0, scene_y, x1, scene_y>>

\* add_kda_marker: label.setPos(x0 - gap - br.width(), scene_y - br.height() / 2.0)
MarkerLabelPos(scene_y, br) ==
    LET x1 == left_margin - 2
        x0 == x1 - 20
        gap == 6
    IN  <<x0 - gap - br[1], scene_y - br[2]>>

\* the preview's own margin
preview_left_margin == 60

\* the preview's tick drawn up to the crop's edge, the 2 px clearance left out
PreviewLine_NoClearance(y_local) ==
    LET x1 == preview_left_margin
        x0 == x1 - 20
    IN  <<x0, y_local, x1, y_local>>

\* show_cropped_with_ticks: QGraphicsLineItem(x0, y_local, x1, y_local)
PreviewLine(y_local) ==
    LET x1 == preview_left_margin - 2
        x0 == x1 - 20
    IN  <<x0, y_local, x1, y_local>>

\* show_cropped_with_ticks: label.setPos(x0 - 6.0 - br.width(), y_local - br.height()/2.0)
PreviewLabelPos(y_local, br) ==
    LET x1 == preview_left_margin - 2
        x0 == x1 - 20
    IN  <<x0 - 6 - br[1], y_local - br[2]>>

-----------------------------------------------------------------------------
(* Construction *)

\* CanvasView.__init__
CanvasViewInit ==
    /\ rubberBand = None
    /\ origin = <<0, 0>>
    /\ mode = None
    /\ crop_callback = FALSE
    /\ mark_callback = FALSE
    /\ view_scale = 1

\* MainWindow.__init__ of mainb.py, ending with show_startup_message()
MainWindowInit ==
    /\ current_pixmap = None
    /\ pixmap_item = None
    /\ kda_markers = <<>>
    /\ scene = StartupItems
    /\ CanvasViewInit

\* MainWindow.__init__ of main.py: an empty scene in a plain QGraphicsView;
\* main.py has no markers, modes or crop, and those variables keep these values
MainInit ==
    /\ current_pixmap = None
    /\ pixmap_item = None
    /\ kda_markers = <<>>
    /\ scene = {}
    /\ CanvasViewInit

Init ==
    /\ program \in {"mainb", "main"}
    /\ IF program = "mainb" THEN MainWindowInit ELSE MainInit
    /\ crop_window = NoWindow
    /\ crop_calls = 0
    /\ nextId = 0
    /\ error = FALSE

-----------------------------------------------------------------------------
(* main.py *)

\* MainWindow.open_image of main.py: the scene is cleared and the pixmap added
\* whenever a file name was chosen, decodable or not
main_open_image(outcome, img) ==
    /\ program = "main"
    /\ scene' = IF outcome = "cancel" THEN scene
                ELSE IF outcome = "null" THEN {PixmapItem(None)}
                ELSE {PixmapItem(img)}
    /\ view_scale' = IF outcome = "ok" THEN FitScale(img) ELSE view_scale
    /\ UNCHANGED <<program, current_pixmap, pixmap_item, kda_markers, mode,
                   crop_callback, mark_callback, rubberBand, origin,
                   crop_window, crop_calls, nextId, error>>

-----------------------------------------------------------------------------
(* mainb.py: MainWindow *)

\* the marker list not cleared with the scene
open_image_KeepMarkers(outcome, img) ==
    /\ program = "mainb"
    /\ IF outcome = "ok"
       THEN /\ current_pixmap' = img
            /\ scene' = {PixmapItem(img)}
            /\ pixmap_item' = "item"
            /\ view_scale' = FitScale(img)
            /\ UNCHANGED kda_markers
       ELSE UNCHANGED <<current_pixmap, scene, kda_markers, pixmap_item, view_scale>>
    /\ UNCHANGED <<program, mode, crop_callback, mark_callback, rubberBand,
                   origin, crop_window, crop_calls, nextId, error>>

\* the tool dropped when an image is opened
open_image_ResetsMode(outcome, img) ==
    /\ program = "mainb"
    /\ IF outcome = "ok"
       THEN /\ current_pixmap' = img
            /\ scene' = {PixmapItem(img)}
            /\ kda_markers' = <<>>
            /\ pixmap_item' = "item"
            /\ view_scale' = FitScale(img)
            /\ mode' = None
       ELSE UNCHANGED <<current_pixmap, scene, kda_markers, pixmap_item, view_scale, mode>>
    /\ UNCHANGED <<program, crop_callback, mark_callback, rubberBand,
                   origin, crop_window, crop_calls, nextId, error>>

open_image(outcome, img) ==
    /\ program = "mainb"
    /\ IF outcome = "ok"
       THEN /\ current_pixmap' = img
            /\ scene' = {PixmapItem(img)}
            /\ kda_markers' = <<>>
            /\ pixmap_item' = "item"
            /\ view_scale' = FitScale(img)
       ELSE UNCHANGED <<current_pixmap, scene, kda_markers, pixmap_item, view_scale>>
    /\ UNCHANGED <<program, mode, crop_callback, mark_callback, rubberBand,
                   origin, crop_window, crop_calls, nextId, error>>

\* the image check left out
enable_mark_mode_NoCheck ==
    /\ program = "mainb"
    /\ mode' = "mark"
    /\ mark_callback' = TRUE
    /\ UNCHANGED <<program, current_pixmap, pixmap_item, scene, kda_markers,
                   crop_callback, rubberBand, origin, view_scale, crop_window,
                   crop_calls, nextId, error>>

enable_mark_mode ==
    /\ program = "mainb"
    /\ IF current_pixmap = None
       THEN UNCHANGED <<mode, mark_callback>>
       ELSE /\ mode' = "mark"
            /\ mark_callback' = TRUE
    /\ UNCHANGED <<program, current_pixmap, pixmap_item, scene, kda_markers,
                   crop_callback, rubberBand, origin, view_scale, crop_window,
                   crop_calls, nextId, error>>

enable_crop_mode ==
    /\ program = "mainb"
    /\ IF current_pixmap = None
       THEN UNCHANGED <<mode, crop_callback>>
       ELSE /\ mode' = "crop"
            /\ crop_callback' = TRUE
    /\ UNCHANGED <<program, current_pixmap, pixmap_item, scene, kda_markers,
                   mark_callback, rubberBand, origin, view_scale, crop_window,
                   crop_calls, nextId, error>>

\* the dialog's cancel ignored
add_kda_marker_IgnoreOk(scene_y, val, ok) ==
    IF pixmap_item = None
    THEN UNCHANGED <<scene, kda_markers, nextId>>
    ELSE /\ nextId' = nextId + 1
         /\ scene' = scene \cup {LineItem(nextId'), TextItem(nextId')}
         /\ kda_markers' =
                SortByY(Append(kda_markers,
                               [y |-> scene_y, kda |-> val, id |-> nextId',
                                line |-> MarkerLine(scene_y),
                                text |-> MarkerLabelPos(scene_y, LabelSize(val))]))

\* add_kda_marker(scene_y) with the dialog's answer (val, ok): its effect on
\* the scene, the marker list and the marker identities
add_kda_marker(scene_y, val, ok) ==
    IF ~ok \/ pixmap_item = None
    THEN UNCHANGED <<scene, kda_markers, nextId>>
    ELSE /\ nextId' = nextId + 1
         /\ scene' = scene \cup {LineItem(nextId'), TextItem(nextId')}
         /\ kda_markers' =
                SortByY(Append(kda_markers,
                               [y |-> scene_y, kda |-> val, id |-> nextId',
                                line |-> MarkerLine(scene_y),
                                text |-> MarkerLabelPos(scene_y, LabelSize(val))]))

\* undo without the emptiness test: list.pop() on an empty list raises IndexError
undo_last_kda_NoEmptyCheck ==
    /\ program = "mainb"
    /\ IF kda_markers = <<>>
       THEN /\ error' = TRUE
            /\ UNCHANGED <<kda_markers, scene>>
       ELSE LET last_m == kda_markers[Len(kda_markers)]
            IN  /\ kda_markers' = SubSeq(kda_markers, 1, Len(kda_markers) - 1)
                /\ scene' = scene \ {LineItem(last_m.id), TextItem(last_m.id)}
                /\ UNCHANGED error
    /\ UNCHANGED <<program, current_pixmap, pixmap_item, mode, crop_callback,
                   mark_callback, rubberBand, origin, view_scale, crop_window,
                   crop_calls, nextId>>

undo_last_kda ==
    /\ program = "mainb"
    /\ IF kda_markers = <<>>
       THEN UNCHANGED <<kda_markers, scene>>
       ELSE LET last_m == kda_markers[Len(kda_markers)]
            IN  /\ kda_markers' = SubSeq(kda_markers, 1, Len(kda_markers) - 1)
                /\ scene' = scene \ {LineItem(last_m.id), TextItem(last_m.id)}
    /\ UNCHANGED <<program, current_pixmap, pixmap_item, mode, crop_callback,
                   mark_callback, rubberBand, origin, view_scale, crop_window,
                   crop_calls, nextId, error>>

\* the preview drawing the session's own items: clearing them empties it too
clear_all_kda_ClearsPreview ==
    /\ program = "mainb"
    /\ scene' = scene \ UNION {{LineItem(kda_markers[i].id), TextItem(kda_markers[i].id)} :
                               i \in DOMAIN kda_markers}
    /\ kda_markers' = <<>>
    /\ crop_window' = [crop_window EXCEPT !.items = <<>>, !.drawn = <<>>]
    /\ UNCHANGED <<program, current_pixmap, pixmap_item, mode, crop_callback,
                   mark_callback, rubberBand, origin, view_scale,
                   crop_calls, nextId, error>>

clear_all_kda ==
    /\ program = "mainb"
    /\ scene' = scene \ UNION {{LineItem(kda_markers[i].id), TextItem(kda_markers[i].id)} :
                               i \in DOMAIN kda_markers}
    /\ kda_markers' = <<>>
    /\ UNCHANGED <<program, current_pixmap, pixmap_item, mode, crop_callback,
                   mark_callback, rubberBand, origin, view_scale, crop_window,
                   crop_calls, nextId, error>>

\* the bottom edge taken as exclusive
RECURSIVE Inside_BottomExclusive(_, _)
Inside_BottomExclusive(ms, scene_rect) ==
    IF ms = <<>> THEN <<>>
    ELSE LET m == Head(ms)
             rest == Inside_BottomExclusive(Tail(ms), scene_rect)
         IN  IF 2 * RectTop(scene_rect) <= m.y /\ m.y < 2 * RectBottom(scene_rect)
             THEN <<m>> \o rest
             ELSE rest

\* [m for m in kda_markers if top <= m["y"] <= bottom]
RECURSIVE Inside(_, _)
Inside(ms, scene_rect) ==
    IF ms = <<>> THEN <<>>
    ELSE LET m == Head(ms)
             rest == Inside(Tail(ms), scene_rect)
         IN  IF 2 * RectTop(scene_rect) <= m.y /\ m.y <= 2 * RectBottom(scene_rect)
             THEN <<m>> \o rest
             ELSE rest

\* the preview's tick/label pairs: one per marker, at y_local = y - top
PreviewItems(markers, src_scene_rect) ==
    [i \in DOMAIN markers |->
        [y |-> markers[i].y - 2 * RectTop(src_scene_rect), kda |-> markers[i].kda]]

\* the line and the label drawn in the preview for each of these
PreviewDrawn(markers, src_scene_rect) ==
    [i \in DOMAIN markers |->
        LET y_local == markers[i].y - 2 * RectTop(src_scene_rect)
        IN  [line |-> PreviewLine(y_local),
             text |-> PreviewLabelPos(y_local, LabelSize(markers[i].kda))]]

show_cropped_with_ticks(pixmap, markers, src_scene_rect) ==
    crop_window' = [shown |-> TRUE, pixmap |-> pixmap,
                    items |-> PreviewItems(markers, src_scene_rect),
                    drawn |-> PreviewDrawn(markers, src_scene_rect),
                    src |-> src_scene_rect]

\* crop_region(scene_rect); cropped is the outcome of current_pixmap.copy(pix_rect)
\* the offset applied with the wrong sign
sceneToImage_AddsOffset(p, m) == <<p[1] + m, p[2]>>

\* scene to image coordinates: the image's placement offset (m, 0) subtracted,
\* as scene_rect.translated(-offset) does for the corners of the selection
sceneToImage(p, m) == <<p[1] - m, p[2]>>

\* image to scene coordinates: the pixmap item is placed at (m, 0), so that its
\* pixel q is shown at q + (m, 0)
imageToScene(q, m) == <<q[1] + m, q[2]>>

\* pix_rect = scene_rect.translated(-offset), offset = pixmap_item.pos() = (left_margin, 0)
PixRect(scene_rect) ==
    LET tl == sceneToImage(<<scene_rect.x1, scene_rect.y1>>, left_margin)
        br == sceneToImage(<<scene_rect.x2, scene_rect.y2>>, left_margin)
    IN  QRectOf(tl[1], tl[2], br[1], br[2])

\* the outcomes of self.current_pixmap.copy(pix_rect)
CopyOutcomes(scene_rect) ==
    IF current_pixmap = None THEN {NullPixmap}
    ELSE PixmapCopies(current_pixmap, PixRect(scene_rect))

\* the filtered list stored back as the session's marker list
crop_region_FilterInPlace(scene_rect, cropped) ==
    /\ crop_calls' = crop_calls + 1
    /\ IF pixmap_item = None \/ current_pixmap = None
       THEN /\ error' = TRUE
            /\ UNCHANGED <<crop_window, kda_markers>>
       ELSE /\ kda_markers' = Inside(kda_markers, scene_rect)
            /\ show_cropped_with_ticks(cropped, kda_markers', scene_rect)
            /\ UNCHANGED error
    /\ UNCHANGED <<current_pixmap, pixmap_item, scene>>

\* crop_region reads the image and the marker list and writes neither
crop_region(scene_rect, cropped) ==
    /\ crop_calls' = crop_calls + 1
    /\ IF pixmap_item = None \/ current_pixmap = None
       THEN /\ error' = TRUE          \* AttributeError on None
            /\ UNCHANGED crop_window
       ELSE /\ show_cropped_with_ticks(cropped, Inside(kda_markers, scene_rect), scene_rect)
            /\ UNCHANGED error
    /\ UNCHANGED <<current_pixmap, pixmap_item, scene, kda_markers>>

-----------------------------------------------------------------------------
(* mainb.py: CanvasView *)

\* whether a press opens the kDa dialog, and the answers it can then give
OpensDialog(button) == button = "left" /\ mode = "mark" /\ mark_callback
DialogAnswers(button) ==
    IF OpensDialog(button)
    THEN KdaVals \X BOOLEAN
    ELSE {<<0, FALSE>>}

\* mousePressEvent(event) with the dialog's answer (val, ok), if it opens
mousePressEvent(button, pos, val, ok) ==
    /\ program = "mainb"
    /\ IF button = "left" /\ mode = "crop" /\ crop_callback
       THEN /\ origin' = pos
            /\ rubberBand' = "visible"
            /\ crop_calls' = 0
            /\ UNCHANGED <<scene, kda_markers, nextId>>
       ELSE IF button = "left" /\ mode = "mark" /\ mark_callback
       THEN /\ ok /\ pixmap_item # None => nextId < MaxAdds
            /\ add_kda_marker(mapToSceneY(pos[2], view_scale), val, ok)
            /\ UNCHANGED <<origin, rubberBand, crop_calls>>
       ELSE UNCHANGED <<origin, rubberBand, crop_calls, scene, kda_markers, nextId>>
    /\ UNCHANGED <<program, current_pixmap, pixmap_item, mode, crop_callback,
                   mark_callback, view_scale, crop_window, error>>

\* a live preview: the crop callback called on every move of the drag
mouseMoveEvent_LiveCrop(pos) ==
    /\ program = "mainb"
    /\ IF rubberBand = "visible" /\ crop_callback
       THEN \E cropped \in
                IF current_pixmap = None THEN {NullPixmap}
                ELSE PixmapCopies(current_pixmap,
                        translated(mapToSceneRect(normalized(
                            QRectOf(origin[1], origin[2], pos[1], pos[2])), view_scale),
                            -left_margin, 0)) :
                crop_region(mapToSceneRect(normalized(
                    QRectOf(origin[1], origin[2], pos[1], pos[2])), view_scale), cropped)
       ELSE UNCHANGED <<crop_window, crop_calls, error,
                        current_pixmap, pixmap_item, scene, kda_markers>>
    /\ UNCHANGED <<program, mode, crop_callback, mark_callback, rubberBand, origin,
                   view_scale, nextId>>

mouseMoveEvent(pos) ==
    /\ program = "mainb"
    /\ UNCHANGED <<program, current_pixmap, pixmap_item, scene, kda_markers, mode,
                   crop_callback, mark_callback, rubberBand, origin, view_scale,
                   crop_window, crop_calls, nextId, error>>

\* the mode kept after the gesture
ResetMode_Keep == mode' = mode

\* "one-shot crop unless re-enabled": self.mode = None, reached unless the
\* callback raised
ResetMode == mode' = IF error' THEN mode ELSE None

\* the scene rectangle of a drag from origin to pos
SceneRect(pos) ==
    mapToSceneRect(normalized(QRectOf(origin[1], origin[2], pos[1], pos[2])), view_scale)

mouseReleaseEvent(pos) ==
    /\ program = "mainb"
    /\ IF rubberBand = "visible"
       THEN /\ rubberBand' = "hidden"
            /\ IF crop_callback
               THEN \E cropped \in CopyOutcomes(SceneRect(pos)) :
                        crop_region(SceneRect(pos), cropped)
               ELSE UNCHANGED <<crop_window, crop_calls, error,
                                current_pixmap, pixmap_item, scene, kda_markers>>
            /\ ResetMode
       ELSE UNCHANGED <<rubberBand, mode, crop_window, crop_calls, error,
                        current_pixmap, pixmap_item, scene, kda_markers>>
    /\ UNCHANGED <<program, crop_callback, mark_callback, origin, view_scale, nextId>>

-----------------------------------------------------------------------------

Outcomes == {"cancel", "null", "ok"}

MainOpenImage == \E o \in Outcomes, i \in Images : main_open_image(o, i)
OpenImage == \E o \in Outcomes, i \in Images : open_image(o, i)
MousePress ==
    \E b \in Buttons, p \in Points : \E a \in DialogAnswers(b) :
        mousePressEvent(b, p, a[1], a[2])
MouseMove == \E p \in Points : mouseMoveEvent(p)
MouseRelease == \E p \in Points : mouseReleaseEvent(p)

Next ==
    \/ MainOpenImage
    \/ OpenImage
    \/ enable_mark_mode
    \/ enable_crop_mode
    \/ undo_last_kda
    \/ clear_all_kda
    \/ MousePress
    \/ MouseMove
    \/ MouseRelease

Spec == Init /\ [][Next]_vars

-----------------------------------------------------------------------------
(* Steps and measures the properties speak of *)

Ids(ms) == {ms[i].id : i \in DOMAIN ms}
\* the marker inserted last among those stored: identities grow with insertion
Latest(ms) == CHOOSE k \in Ids(ms) : \A j \in Ids(ms) : j <= k

\* a release that ends a rubber-band selection and calls the crop callback
CropStep == rubberBand = "visible" /\ crop_callback /\ \E p \in Points : mouseReleaseEvent(p)

\* a left press in crop mode, which starts a rubber-band selection
CropPress ==
    mode = "crop" /\ crop_callback /\ \E p \in Points : mousePressEvent("left", p, 0, FALSE)

\* a left click in mark mode whose dialog is cancelled
CancelledPlacement ==
    OpensDialog("left") /\ \E p \in Points, v \in KdaVals : mousePressEvent("left", p, v, FALSE)

\* a left click in mark mode whose dialog is accepted
AcceptedPlacement ==
    OpensDialog("left") /\ \E p \in Points, v \in KdaVals : mousePressEvent("left", p, v, TRUE)

\* markers of equal y stand in the order of their insertion
TieOrder(ms) ==
    \A i, j \in DOMAIN ms : (i < j /\ ms[i].y = ms[j].y) => ms[i].id < ms[j].id

SuccessfulOpen == \E i \in Images : open_image("ok", i) \/ main_open_image("ok", i)
FailedOpen ==
    \E o \in {"cancel", "null"}, i \in Images : open_image(o, i) \/ main_open_image(o, i)

\* the markers of ms within the vertical span of rectangle r, by position in ms
InSpan(ms, r) == {k \in DOMAIN ms : 2 * RectTop(r) <= ms[k].y /\ ms[k].y <= 2 * RectBottom(r)}

\* the selection r, moved to image coordinates and clipped to image img, has
\* no width or no height
Degenerate(r, img) ==
    \/ Min2(r.x2 - left_margin, ImgW(img) - 1) < Max2(r.x1 - left_margin, 0)
    \/ Min2(r.y2, ImgH(img) - 1) < Max2(r.y1, 0)

-----------------------------------------------------------------------------
(* Properties *)

\* C1: undo-last removes the most recently inserted marker, whatever its
\* vertical position: after insert(A); insert(B); undo, exactly A is left.
C1_UndoRemovesMostRecent ==
    [][(undo_last_kda /\ kda_markers # <<>>)
          => Ids(kda_markers') = Ids(kda_markers) \ {Latest(kda_markers)}]_vars

\* C2: in every reachable state the marker list is sorted non-decreasing by y.
C2_Sorted ==
    \A i, j \in DOMAIN kda_markers : i < j => kda_markers[i].y <= kda_markers[j].y

\* C2 witness: a marker inserted later stands before one inserted earlier
C2_Witness ==
    \E i, j \in DOMAIN kda_markers :
        i < j /\ kda_markers[i].id > kda_markers[j].id /\ kda_markers[i].y < kda_markers[j].y

\* C3: mark mode is persistent: once the mode is "mark", no step other than a
\* tool-selection command takes it out of "mark".
C3_MarkModePersistent ==
    [][mode = "mark" => (mode' = "mark" \/ enable_crop_mode \/ enable_mark_mode)]_vars

\* C4: crop mode is one-shot: the release that completes a selection leaves
\* the mode Idle, a rubber-band selection starts only in crop mode, and the
\* mode becomes "crop" only by enable_crop_mode.
C4_CropOneShot ==
    [][/\ (rubberBand = "visible" /\ rubberBand' # "visible") => mode' = None
       /\ (rubberBand' = "visible" /\ (rubberBand # "visible" \/ origin' # origin))
             => mode = "crop"
       /\ (mode # "crop" /\ mode' = "crop") => enable_crop_mode]_vars

\* C4 witness: a selection was completed and cropped, the mode is Idle
C4_Witness ==
    crop_window.shown /\ rubberBand = "hidden" /\ mode = None /\ crop_calls = 1

\* C5: right after a successful open-image the marker list is empty and the
\* scene holds the new image and nothing else (no tick, no label).
C5_OpenDiscardsMarkers ==
    [][SuccessfulOpen
          => /\ kda_markers' = <<>>
             /\ \E i \in Images : scene' = {PixmapItem(i)}
             /\ program = "mainb" => scene' = {PixmapItem(current_pixmap')}]_vars

\* C5 witness: markers were placed and previewed on one image, and another
\* image is now open with no marker and no tick
C5_Witness ==
    /\ crop_window.shown /\ crop_window.items # <<>>
    /\ current_pixmap # None /\ crop_window.pixmap.img \notin {None, current_pixmap}
    /\ kda_markers = <<>> /\ scene = {PixmapItem(current_pixmap)}

\* C6: a failed open-image (dialog cancelled or decode failure) with an image
\* on display leaves the image, the scene, the markers and the mode unchanged.
C6_FailedOpenUntouched ==
    [][(FailedOpen /\ \E i \in Images : PixmapItem(i) \in scene)
          => UNCHANGED <<current_pixmap, pixmap_item, scene, kda_markers, mode>>]_vars

\* C7: while no image is loaded the mode is Idle, whatever commands and
\* pointer events were issued, and there is no marker, no rubber band and no
\* crop preview.
C7_NoImageNoOps ==
    (program = "mainb" /\ current_pixmap = None)
        => /\ mode = None /\ ~mark_callback /\ ~crop_callback
           /\ kda_markers = <<>> /\ nextId = 0 /\ scene = StartupItems
           /\ rubberBand = None /\ ~crop_window.shown /\ ~error

\* C7 witness: the session with no image loaded
C7_Witness == program = "mainb" /\ current_pixmap = None /\ pixmap_item = None /\ mode = None

\* C8: a placement whose kDa dialog is cancelled changes nothing: markers,
\* scene items, mode and all the rest are as before the click.
C8_CancelledPlacementNoChange ==
    [][CancelledPlacement => UNCHANGED vars]_vars

\* C8 witness: mark mode armed on an image that already carries markers
C8_Witness == OpensDialog("left") /\ pixmap_item # None /\ kda_markers # <<>>

\* C9: the crop preview holds exactly the markers with top <= y <= bottom
\* (both inclusive), in ascending y order, each at y - top.
C9_CropMarkers ==
    [][CropStep =>
          LET r == crop_window'.src
              items == crop_window'.items
              Rebased(k) == [y |-> kda_markers[k].y - 2 * RectTop(r), kda |-> kda_markers[k].kda]
          IN  /\ Len(items) = Cardinality(InSpan(kda_markers, r))
              /\ \A i, j \in DOMAIN items : i < j => items[i].y <= items[j].y
              /\ \A k \in InSpan(kda_markers, r) :
                    Cardinality({i \in DOMAIN items : items[i] = Rebased(k)})
                      = Cardinality({j \in InSpan(kda_markers, r) : Rebased(j) = Rebased(k)})
              /\ \A i \in DOMAIN items : 0 <= items[i].y /\ items[i].y <= 2 * (RectBottom(r) - RectTop(r))
       ]_vars

\* C9 witness: a preview with a marker on the top edge and one on the bottom
\* edge of the selection
C9_Witness ==
    /\ crop_window.shown /\ Len(crop_window.items) = 2
    /\ crop_window.items[1].y = 0
    /\ crop_window.items[2].y = 2 * (RectBottom(crop_window.src) - RectTop(crop_window.src))

C11_CropNoSideEffects ==
    [][CropStep => UNCHANGED <<current_pixmap, pixmap_item, kda_markers, scene>>]_vars

\* C11 witness: right after a crop whose preview holds fewer markers than the
\* session, all of which still have their tick and label in the scene
C11_Witness ==
    /\ crop_window.shown /\ crop_calls = 1 /\ rubberBand = "hidden" /\ mode = None
    /\ crop_window.items # <<>> /\ Len(crop_window.items) < Len(kda_markers)
    /\ \A i \in DOMAIN kda_markers :
          {LineItem(kda_markers[i].id), TextItem(kda_markers[i].id)} \subseteq scene

\* C12: empty-store operations are no-ops: undo on an empty marker list, and
\* clear on an empty marker list (once, or again after that), raise no error
\* and leave the list, the scene, the image and the mode, in fact the whole
\* state, unchanged.
C12_EmptyStoreNoOps ==
    [][(kda_markers = <<>> /\ (undo_last_kda \/ clear_all_kda))
          => (UNCHANGED vars /\ ~error')]_vars

\* C12 witness: a session with an image whose marker list was emptied again
\* after markers had been placed, so that a further undo or clear finds it empty
C12_Witness ==
    /\ program = "mainb" /\ current_pixmap # None /\ ~error
    /\ kda_markers = <<>> /\ nextId > 0
    /\ scene = {PixmapItem(current_pixmap)}

\* C13: insertion always succeeds and duplicates are permitted: an accepted
\* placement adds exactly one marker, also when a marker of the same y (and
\* the same value) is already stored; every marker stored before is kept, and
\* markers of equal y stand in the order of their insertion.
C13_InsertKeepsDuplicates ==
    [][AcceptedPlacement =>
          /\ Len(kda_markers') = Len(kda_markers) + 1
          /\ Ids(kda_markers') = Ids(kda_markers) \cup {nextId'}
          /\ nextId' \notin Ids(kda_markers)
          /\ \A i \in DOMAIN kda_markers : \E j \in DOMAIN kda_markers' :
                kda_markers'[j] = kda_markers[i]
          /\ TieOrder(kda_markers')]_vars

\* C13 witness: two stored markers with the same y and the same value, the
\* earlier insertion first
C13_Witness ==
    \E i, j \in DOMAIN kda_markers :
        /\ i < j
        /\ kda_markers[i].y = kda_markers[j].y
        /\ kda_markers[i].kda = kda_markers[j].kda
        /\ kda_markers[i].id < kda_markers[j].id

\* C14: the crop gesture is atomic: crop_region is called exactly once for
\* each press-move-release gesture in crop mode, and at the release; it is not
\* called at a press, at a move, or without a preceding press in crop mode.
\* crop_calls counts the calls since the selection was last started.
C14_CropGestureAtomic ==
    [][/\ (rubberBand' = "visible" /\ rubberBand # "visible") => CropPress
       /\ (rubberBand = "visible" /\ MouseRelease)
             => (rubberBand' = "hidden" /\ crop_calls = 0 /\ crop_calls' = 1)
       /\ crop_calls' # crop_calls
             => \/ CropStep /\ crop_calls' = crop_calls + 1
                \/ CropPress /\ crop_calls' = 0]_vars

\* C14 witness: a gesture was completed with its one call, and crop mode has
\* been selected again for the next one
C14_Witness ==
    /\ crop_calls = 1 /\ rubberBand = "hidden" /\ mode = "crop"
    /\ crop_window.shown /\ ~RectIsEmpty(crop_window.src)

\* The layout the renderer is specified to compute for a marker at y (half
\* pixels) with left margin M, tick length T, label gap G and label size
\* (w, h): tickEnd = (M - 2, y), tickStart = (M - 2 - T, y),
\* labelOrigin = (tickStart.x - G - w, y - h/2)
Layout(M, T, G, y, w, h) ==
    [tickStart |-> <<M - 2 - T, y>>,
     tickEnd |-> <<M - 2, y>>,
     labelOrigin |-> <<M - 2 - T - G - w, y - h>>]

\* whether a drawn line and label position are the layout's
Drawn(line, text, lay) ==
    /\ <<line[1], line[2]>> = lay.tickStart
    /\ <<line[3], line[4]>> = lay.tickEnd
    /\ text = lay.labelOrigin

\* C15: tick and label geometry: every marker of the main scene, and every
\* marker of a crop preview at its re-based y, is drawn with
\* tickEnd = (M - 2, y), tickStart = (M - 2 - T, y) and
\* labelOrigin = (tickStart.x - G - w, y - h/2) for M = 60, T = 20, G = 6 and
\* its label's size (w, h); for y = 50, w = 30, h = 12 these are (58, 50),
\* (38, 50) and (2, 44).
C15_TickLabelGeometry ==
    /\ \A i \in DOMAIN kda_markers :
          LET m == kda_markers[i]
              br == LabelSize(m.kda)
          IN  /\ Drawn(m.line, m.text, Layout(60, 20, 6, m.y, br[1], br[2]))
              /\ (m.y = 2 * 50 /\ br = <<30, 12>>)
                    => (m.line = <<38, 2 * 50, 58, 2 * 50>> /\ m.text = <<2, 2 * 44>>)
    /\ \A i \in DOMAIN crop_window.drawn :
          LET it == crop_window.items[i]
              d == crop_window.drawn[i]
              br == LabelSize(it.kda)
          IN  Drawn(d.line, d.text, Layout(60, 20, 6, it.y, br[1], br[2]))

\* C15 witness: the marker of the example (y = 50, label 30 by 12) in the main
\* scene, and a preview that draws a marker too
C15_Witness ==
    /\ \E i \in DOMAIN kda_markers :
          kda_markers[i].y = 2 * 50 /\ LabelSize(kda_markers[i].kda) = <<30, 12>>
    /\ crop_window.drawn # <<>>
    /\ \E i \in DOMAIN crop_window.drawn : crop_window.items[i].y # 2 * 50

\* an image-space point within the bounds [0, width) x [0, height) of img
InBounds(q, img) == 0 <= q[1] /\ q[1] < ImgW(img) /\ 0 <= q[2] /\ q[2] < ImgH(img)

\* integer scene points around the edges of the margin and of the images, and
\* the margins of the programs: none, one pixel, and the left margin
MapPoints == {0, 1, 59, 60, 61, 99, 100, 159, 160} \X {0, 1, 49, 50, 99, 100}
MapMargins == {0, 1, left_margin}

\* C16: round-trip mapping: for every integer scene point p and margin m,
\* subtracting (m, 0) to reach image space and adding (m, 0) to come back
\* returns p exactly whenever the image-space point is within the image; so
\* the top-left pixel of a cropped image lies in the scene where the selection began.
C16_RoundTrip ==
    /\ current_pixmap # None =>
          \A p \in MapPoints, m \in MapMargins :
              InBounds(sceneToImage(p, m), current_pixmap)
                  => imageToScene(sceneToImage(p, m), m) = p
    /\ (crop_window.shown /\ crop_window.pixmap.img # None) =>
          LET tl == <<crop_window.src.x1, crop_window.src.y1>>
              c == crop_window.pixmap.rect
          IN  (~RectIsEmpty(crop_window.src)
                 /\ InBounds(sceneToImage(tl, left_margin), crop_window.pixmap.img))
              => imageToScene(<<c.x1, c.y1>>, left_margin) = tl

\* C16 witness: a crop that began inside the image, away from its corner
C16_Witness ==
    /\ current_pixmap # None /\ crop_window.shown
    /\ crop_window.pixmap.img = current_pixmap
    /\ ~RectIsEmpty(crop_window.src)
    /\ InBounds(sceneToImage(<<crop_window.src.x1, crop_window.src.y1>>, left_margin),
                current_pixmap)
    /\ crop_window.pixmap.rect.x1 > 0 /\ crop_window.pixmap.rect.y1 > 0

\* C17: a crop result is isolated from the session: once a preview exists,
\* inserting, undoing, clearing and opening an image, in fact every step but a
\* further crop, leave its image and its re-based markers unchanged.
C17_CropResultIsolated ==
    [][/\ (crop_window.shown /\ ~CropStep) => UNCHANGED crop_window
       /\ (AcceptedPlacement \/ undo_last_kda \/ clear_all_kda \/ SuccessfulOpen)
             => UNCHANGED crop_window]_vars

\* C17 witness: a preview that still shows markers of which the session has
\* none left: they were removed, and another one was placed elsewhere
C17_Witness ==
    /\ crop_window.shown /\ crop_window.items # <<>>
    /\ crop_window.pixmap.img = current_pixmap
    /\ kda_markers # <<>>
    /\ \A i \in DOMAIN kda_markers, j \in DOMAIN crop_window.items :
          kda_markers[i].y - 2 * RectTop(crop_window.src) # crop_window.items[j].y

\* C18: open-image leaves the interaction mode unchanged: a successful open
\* in mark or crop mode keeps the mode and its callback armed and an image on
\* display, so that the next left press places a marker on, or starts a crop
\* of, the new image without the tool being selected again.
C18_OpenKeepsMode ==
    [][(mode \in {"mark", "crop"} /\ SuccessfulOpen)
          => /\ UNCHANGED <<mode, mark_callback, crop_callback>>
             /\ mode' = "mark" => mark_callback'
             /\ mode' = "crop" => crop_callback'
             /\ pixmap_item' # None /\ current_pixmap' \in Images
             /\ scene' = {PixmapItem(current_pixmap')}]_vars

\* C18 witness: a marker placed on the second image in mark mode while the
\* preview of a crop of the first image, whose release had dropped the tool,
\* is still there
C18_Witness ==
    /\ mode = "mark" /\ mark_callback
    /\ current_pixmap = "gelB" /\ kda_markers # <<>>
    /\ crop_window.shown /\ crop_window.pixmap.img = "gelA"

====
